---- MODULE Spec2Model ----
(***************************************************************************)
(* Model of the exam-submission pipeline of TestPro.js: the in-memory      *)
(* submissionQueue, the activeSubmissions counter, processNextSubmission   *)
(* and the Submission / Question / Result collections it reads and writes. *)
(*                                                                         *)
(* JavaScript runs each handler to completion up to its next await, so an  *)
(* action of this model is one such run: the datastore call a flow is      *)
(* waiting on takes effect and the code that follows it runs up to the     *)
(* next await (or to the end of the finally block, which includes the      *)
(* nested synchronous call of processNextSubmission).                      *)
(***************************************************************************)
EXTENDS Integers, Sequences, FiniteSets, TLC

VARIABLES
    MAX_CONCURRENT_SUBMISSIONS, \* the concurrency cap (25 in the source)
    questions,          \* the Question collection
    submissionQueue,    \* queue of request ids, head first
    activeSubmissions,  \* the in-flight counter
    body,               \* body[i]: req.body of request i, NoBody before it is sent
    pc,                 \* pc[i]: where request i's processing flow stands
    scored,             \* scored[i]: the flow's locals score, total, caScore, totalScore
    responses,          \* responses[i]: the status codes sent on res of request i
    submissions,        \* the Submission collection
    results,            \* the Result collection
    admitted,           \* history: request ids in the order they left the queue
    resultAtStart,      \* history: a Result of the pair existed when flow i started
    sessionDocs,        \* the SessionControl collection: sessionActive of each document
    allowedGroups,      \* the AllowedGroup collection, in insertion order
    scheduled,          \* the ScheduledStudent collection
    studentSessions,    \* the Set of logged-in matric numbers
    gate,               \* gate[i]: the login, admin or schedule-check request i
    lastToggle,         \* history: sessionActive of the session toggle that completed last
    lastRule,           \* history: status of the access-control write that completed last
    tokens,             \* the Token collection, in insertion order
    transactions,       \* the Transaction collection
    students,           \* the Student collection the registration routes write
    publicUsers,        \* the PublicUser collection
    treq                \* treq[i]: the registration or token request i

\* the state of the submission pipeline
pipeVars == << MAX_CONCURRENT_SUBMISSIONS, questions, submissionQueue, activeSubmissions,
               body, pc, scored, responses, submissions, results, admitted,
               resultAtStart >>

\* the state of the access gate and of its admin routes
gateVars == << sessionDocs, allowedGroups, scheduled, studentSessions, gate,
               lastToggle, lastRule >>

\* the state of the token and registration routes
tokenVars == << tokens, transactions, students, publicUsers, treq >>

vars == << MAX_CONCURRENT_SUBMISSIONS, questions, submissionQueue, activeSubmissions,
           body, pc, scored, responses, submissions, results, admitted,
           resultAtStart, sessionDocs, allowedGroups, scheduled, studentSessions, gate,
           lastToggle, lastRule, tokens, transactions, students, publicUsers, treq >>

----------------------------------------------------------------------------
(* Bounds of the model *)

\* number of submit requests a behaviour sends
MaxReqs == 3
\* the caps the model is run with: 1 .. MaxCap
MaxCap == 2
\* Math.random() is drawn as r / RandDen for some numerator r
RandDen == 100

\* number of login, admin and schedule-check requests a behaviour sends
MaxGateReqs == 2

ReqIds == 1 .. MaxReqs
GateIds == 1 .. MaxGateReqs

\* number of registration and token requests a behaviour sends
MaxTokReqs == 2

TokIds == 1 .. MaxTokReqs

----------------------------------------------------------------------------
(* JavaScript values of the request body *)

Undefined == [type |-> "undefined"]
Null == [type |-> "null"]
Str(s) == [type |-> "string", val |-> s]
Bool(b) == [type |-> "boolean", val |-> b]
EmptyArray == [type |-> "array"]
Obj(f) == [type |-> "map", entries |-> f]

\* typeof v
TypeOf(v) ==
    CASE v.type = "undefined" -> "undefined"
      [] v.type = "string" -> "string"
      [] v.type = "null" -> "object"
      [] v.type = "array" -> "object"
      [] v.type = "map" -> "object"

\* v is truthy
Truthy(v) ==
    CASE v.type = "undefined" -> FALSE
      [] v.type = "null" -> FALSE
      [] v.type = "string" -> v.val # ""
      [] v.type = "boolean" -> v.val
      [] OTHER -> TRUE

\* answers[id]: a property read on an object; an array has no such key
Index(answers, id) ==
    IF answers.type = "map" /\ id \in DOMAIN answers.entries
    THEN answers.entries[id]
    ELSE Undefined

----------------------------------------------------------------------------
(* The Question collection and the request bodies the model draws from *)

Question(id, code, answer) == [_id |-> id, courseCode |-> code, correctAnswer |-> answer]

\* The Question collection of the pipeline runs: course c1 has two questions.
ExamQuestions ==
    { Question("q1", "c1", Str("a")), Question("q2", "c1", Str("b")),
      Question("q3", "c2", Str("a")) }

Body(m, c, a) == [matric |-> m, courseCode |-> c, answers |-> a]

\* Bodies that pass the check of line 652 with a proper answer map. "" stands
\* for a field that is absent or empty (both are falsy). name and department
\* are taken to be present in every body.
ValidBodies ==
    { Body("m1", "c1", Obj([q \in {"q1", "q2"} |-> Str(IF q = "q1" THEN "a" ELSE "b")])),
      Body("m2", "c1", Obj([q \in {} |-> Str("")])) }

\* Bodies with a missing field or with answers that is no answer map.
OddBodies ==
    { Body("", "c1", Obj([q \in {"q1"} |-> Str("a")])),
      Body("m1", "c1", Undefined),
      Body("m1", "c1", Null) }

Bodies == ValidBodies \cup OddBodies

\* Labels a stored correct answer or a chosen answer may be; the question
\* upload stores correctAnswer as sent, so it may be "".
Labels == {"a", "b", ""}

\* Every content of the Question collection in which course c1 has some of
\* the questions q1, q2, with any labels as correct answers.
QuestionStores ==
    { {Question(id, "c1", Str(f[id])) : id \in DOMAIN f} \cup {Question("q3", "c2", Str("a"))} :
        f \in UNION {[D -> Labels] : D \in SUBSET {"q1", "q2"}} }

\* Every answer map over the questions q1, q2
AnswerMaps == {Obj([id \in DOMAIN f |-> Str(f[id])]) :
                 f \in UNION {[D -> Labels] : D \in SUBSET {"q1", "q2"}}}

\* The bodies of the single-submission runs
SingleBodies ==
    {Body("m1", "c1", a) : a \in AnswerMaps \cup {Undefined, Null, EmptyArray, Str("a")}}
      \cup {Body("", "c1", Obj([id \in {"q1"} |-> Str("a")])),
            Body("m1", "", Obj([id \in {"q1"} |-> Str("a")]))}

NoBody == [matric |-> "-"]
NoScore == [score |-> -1]

\* numerators r of the draws Math.random() = r / RandDen, 0 <= r < RandDen
RandomNumerators == {0, RandDen - 1}

Pending == {"findSubmission", "createSubmission", "findQuestions", "findResult",
            "createResult"}

----------------------------------------------------------------------------
(* processNextSubmission, lines 643-700 *)

\* line 652: !matric || !courseCode || typeof answers !== "object"
ValidationFails(b) ==
    b.matric = "" \/ b.courseCode = "" \/ TypeOf(b.answers) # "object"

\* submissionSchema: every path is required; a required String rejects "",
\* a required Object (Mixed) rejects null and undefined
SubmissionSchemaOk(b) ==
    /\ b.matric # "" /\ b.courseCode # ""
    /\ b.answers.type \notin {"undefined", "null"}

\* a comparison that only tests that the question was answered
MatchesAnswered(answers, q) == Truthy(Index(answers, q._id))

\* line 669: answers[q._id] && answers[q._id] === q.correctAnswer
Matches(answers, q) ==
    Truthy(Index(answers, q._id)) /\ Index(answers, q._id) = q.correctAnswer

\* lines 667-672: one increment per matching question
Score(qs, answers) == Cardinality({q \in qs : Matches(answers, q)})

\* Math.ceil in the place of Math.floor
CaScoreCeil(r) == ((r * (35 - 20 + 1) + RandDen - 1) \div RandDen) + 20

\* line 675: Math.floor(Math.random() * (35 - 20 + 1)) + 20
CaScore(r) == ((r * (35 - 20 + 1)) \div RandDen) + 20

\* line 676
TotalScore(score, caScore) == score + caScore

\* line 666: Question.find({ courseCode })
QuestionsOf(code) == {q \in questions : q.courseCode = code}

\* a duplicate lookup that finds nothing
SubmissionExistsNever(b) == FALSE

\* line 657: Submission.findOne({ matric, courseCode })
SubmissionExists(b) ==
    \E d \in submissions : d.matric = b.matric /\ d.courseCode = b.courseCode

\* line 679: Result.findOne({ studentMatric: matric, courseCode })
ResultExists(b) ==
    \E r \in results : r.studentMatric = b.matric /\ r.courseCode = b.courseCode

\* The state the synchronous code works on, as one record.
Local ==
    [queue |-> submissionQueue, active |-> activeSubmissions, body |-> body,
     pc |-> pc, responses |-> responses, admitted |-> admitted,
     resultAtStart |-> resultAtStart]

\* res.status(code).json(...)
Respond(s, i, code) == [s EXCEPT !.responses[i] = Append(@, code)]

\* the early return without its test of the cap
NothingToAdmitNoCap(s) == Len(s.queue) = 0

\* line 644: the early return of processNextSubmission
NothingToAdmit(s) ==
    Len(s.queue) = 0 \/ s.active >= MAX_CONCURRENT_SUBMISSIONS

\* submissionQueue.pop() in the place of shift()
ShiftLast(q) == << q[Len(q)], SubSeq(q, 1, Len(q) - 1) >>

\* line 646: submissionQueue.shift(), as << the item, the rest >>
Shift(q) == << Head(q), Tail(q) >>

RECURSIVE processNextSubmission(_)
RECURSIVE Finally(_)

\* a finally block that frees the slot and does not drain the queue
FinallyNoDrain(s) == [s EXCEPT !.active = @ - 1]

\* a finally block that drains the queue and does not free the slot
FinallyNoDecrement(s) == processNextSubmission(s)

\* lines 696-699: activeSubmissions--; processNextSubmission()
Finally(s) == processNextSubmission([s EXCEPT !.active = @ - 1])

\* the flow of request i ends: its try block returned or its catch block ran
Finish(s, i) == Finally([s EXCEPT !.pc[i] = "done"])

\* lines 643-657: up to the first await. A body that fails validation is
\* answered 400 and its finally block runs in the same synchronous run.
processNextSubmission(s) ==
    IF NothingToAdmit(s) THEN s
    ELSE LET i == Shift(s.queue)[1]
             t == [s EXCEPT !.queue = Shift(s.queue)[2],
                            !.active = @ + 1,
                            !.admitted = Append(@, i),
                            !.resultAtStart[i] = ResultExists(s.body[i])]
         IN  IF ValidationFails(t.body[i])
             THEN Finish(Respond(t, i, 400), i)
             ELSE [t EXCEPT !.pc[i] = "findSubmission"]

\* the variables of the synchronous state take the values of record s
Becomes(s) ==
    /\ submissionQueue' = s.queue
    /\ activeSubmissions' = s.active
    /\ body' = s.body
    /\ pc' = s.pc
    /\ responses' = s.responses
    /\ admitted' = s.admitted
    /\ resultAtStart' = s.resultAtStart

----------------------------------------------------------------------------
(* The access gate and its admin routes *)

\* lines 223-262: matric is stored in upper case at registration
Students ==
    { [matric |-> "COS/1", password |-> "pw", department |-> "CS", level |-> "ND"] }

\* the (department, level) pairs access rules are written for
Groups == { << "CS", "ND" >> }

MatricInputs == {"cos/1", "COS/1"}
PasswordInputs == {"pw", "no"}
StatusInputs == {"allowed", "blocked", ""}
ActiveInputs == {Bool(TRUE), Bool(FALSE), Undefined}
ScheduleMatrics == {"COS/1"}

\* line 355: matric.toUpperCase()
ToUpperCase(s) == IF s = "cos/1" THEN "COS/1" ELSE s

AllowedGroup(d, l, st) == [department |-> d, level |-> l, status |-> st]
ScheduledStudent(m) == [matric |-> m]

\* SessionControl.findOne(): the first document, 0 when there is none
FindSession == IF sessionDocs = << >> THEN 0 ELSE 1

\* lines 358-359, 441, 455: session && session.sessionActive
SessionActive == FindSession # 0 /\ sessionDocs[FindSession]

\* line 364: Student.findOne({ matric, password })
FindStudent(m, pw) == {s \in Students : s.matric = m /\ s.password = pw}

\* lines 370-374: AllowedGroup.findOne({ department, level, status: 'allowed' })
FindAllowedGroup(d, l) ==
    {k \in DOMAIN allowedGroups : allowedGroups[k] = AllowedGroup(d, l, "allowed")}

\* line 717: AllowedGroup.findOne({ department, level }): the first row, 0 when none
FindGroup(d, l) ==
    LET rows == {k \in DOMAIN allowedGroups :
                    /\ allowedGroups[k].department = d
                    /\ allowedGroups[k].level = l}
    IN  IF rows = {} THEN 0 ELSE CHOOSE k \in rows : \A j \in rows : k <= j

\* lines 381, 453: ScheduledStudent.findOne({ matric })
FindScheduled(m) == {s \in scheduled : s.matric = m}

IdleGate == [kind |-> "none", pc |-> "unsent", resp |-> ""]

GateFresh ==
    /\ sessionDocs = << >>
    /\ allowedGroups = << >>
    /\ scheduled = {}
    /\ studentSessions = {}
    /\ gate = [i \in GateIds |-> IdleGate]
    /\ lastToggle = "none"
    /\ lastRule = [g \in Groups |-> "none"]

IdleToken == [kind |-> "none", pc |-> "unsent", resp |-> ""]

TokenFresh ==
    /\ tokens = << >>
    /\ transactions = {}
    /\ students = {}
    /\ publicUsers = {}
    /\ treq = [i \in TokIds |-> IdleToken]

----------------------------------------------------------------------------
(* Initial state and actions *)

Init ==
    /\ MAX_CONCURRENT_SUBMISSIONS \in 1 .. MaxCap
    /\ questions = ExamQuestions
    /\ submissionQueue = << >>
    /\ activeSubmissions = 0
    /\ body = [i \in ReqIds |-> NoBody]
    /\ pc = [i \in ReqIds |-> "unsent"]
    /\ scored = [i \in ReqIds |-> NoScore]
    /\ responses = [i \in ReqIds |-> << >>]
    /\ submissions = {}
    /\ results = {}
    /\ admitted = << >>
    /\ resultAtStart = [i \in ReqIds |-> FALSE]
    /\ GateFresh
    /\ TokenFresh

Unsent == {i \in ReqIds : pc[i] = "unsent"}

\* a submit route that turns the request away while others wait
SubmitBounded(b) ==
    /\ Unsent # {}
    /\ LET i == CHOOSE j \in Unsent : \A k \in Unsent : j <= k
       IN  IF submissionQueue # << >>
           THEN Becomes(Respond([Local EXCEPT !.body[i] = b, !.pc[i] = "done"], i, 503))
           ELSE Becomes(processNextSubmission(
                    [Local EXCEPT !.body[i] = b, !.pc[i] = "queued",
                                  !.queue = Append(@, i)]))
    /\ UNCHANGED << gateVars, tokenVars, MAX_CONCURRENT_SUBMISSIONS, questions, scored, submissions,
                    results >>

\* lines 703-706: POST /api/exams/:courseCode/submit
Submit(b) ==
    /\ Unsent # {}
    /\ LET i == CHOOSE j \in Unsent : \A k \in Unsent : j <= k
       IN  Becomes(processNextSubmission(
               [Local EXCEPT !.body[i] = b, !.pc[i] = "queued",
                             !.queue = Append(@, i)]))
    /\ UNCHANGED << gateVars, tokenVars, MAX_CONCURRENT_SUBMISSIONS, questions, scored, submissions,
                    results >>

\* lines 657-660: the duplicate lookup resolves
FindSubmission(i) ==
    /\ pc[i] = "findSubmission"
    /\ IF SubmissionExists(body[i])
       THEN Becomes(Finish(Respond(Local, i, 409), i))
       ELSE Becomes([Local EXCEPT !.pc[i] = "createSubmission"])
    /\ UNCHANGED << gateVars, tokenVars, MAX_CONCURRENT_SUBMISSIONS, questions, scored, submissions,
                    results >>

\* a flow that goes on to the scoring without writing the Submission
CreateSubmissionSkip(i) ==
    /\ pc[i] = "createSubmission"
    /\ submissions' = submissions
    /\ Becomes([Local EXCEPT !.pc[i] = "findQuestions"])
    /\ UNCHANGED << gateVars, tokenVars, MAX_CONCURRENT_SUBMISSIONS, questions, scored, results >>

\* line 663: Submission.create resolves, or rejects with a ValidationError
CreateSubmission(i) ==
    /\ pc[i] = "createSubmission"
    /\ IF SubmissionSchemaOk(body[i])
       THEN /\ submissions' = submissions \cup
                   {[_id |-> i, matric |-> body[i].matric,
                     courseCode |-> body[i].courseCode, answers |-> body[i].answers]}
            /\ Becomes([Local EXCEPT !.pc[i] = "findQuestions"])
       ELSE /\ submissions' = submissions
            /\ Becomes(Finish(Respond(Local, i, 500), i))
    /\ UNCHANGED << gateVars, tokenVars, MAX_CONCURRENT_SUBMISSIONS, questions, scored, results >>

\* lines 666-676: Question.find resolves; score, caScore and totalScore
FindQuestions(i) ==
    /\ pc[i] = "findQuestions"
    /\ \E r \in RandomNumerators :
          LET qs == QuestionsOf(body[i].courseCode)
              score == Score(qs, body[i].answers)
          IN  scored' = [scored EXCEPT ![i] =
                  [score |-> score, total |-> Cardinality(qs), caScore |-> CaScore(r),
                   totalScore |-> TotalScore(score, CaScore(r))]]
    /\ pc' = [pc EXCEPT ![i] = "findResult"]
    /\ UNCHANGED << gateVars, tokenVars, MAX_CONCURRENT_SUBMISSIONS, questions, submissionQueue,
                    activeSubmissions, body, responses, submissions, results, admitted, resultAtStart >>

\* lines 679-680 and 691: Result.findOne resolves
FindResult(i) ==
    /\ pc[i] = "findResult"
    /\ IF ResultExists(body[i])
       THEN /\ Becomes(Finish(Respond(Local, i, 200), i))
            /\ scored' = [scored EXCEPT ![i] = NoScore]
       ELSE /\ Becomes([Local EXCEPT !.pc[i] = "createResult"])
            /\ scored' = scored
    /\ UNCHANGED << gateVars, tokenVars, MAX_CONCURRENT_SUBMISSIONS, questions, submissions, results >>

\* a Result write that replaces the stored Result of the pair
CreateResultUpsert(i) ==
    /\ pc[i] = "createResult"
    /\ results' = {r \in results : ~(r.studentMatric = body[i].matric
                                       /\ r.courseCode = body[i].courseCode)} \cup
           {[_id |-> i, studentMatric |-> body[i].matric,
             courseCode |-> body[i].courseCode, score |-> scored[i].score,
             total |-> scored[i].total, caScore |-> scored[i].caScore,
             totalScore |-> scored[i].totalScore]}
    /\ Becomes(Finish(Respond(Local, i, 200), i))
    /\ scored' = [scored EXCEPT ![i] = NoScore]
    /\ UNCHANGED << gateVars, tokenVars, MAX_CONCURRENT_SUBMISSIONS, questions, submissions >>

\* lines 681-691: Result.create resolves
CreateResult(i) ==
    /\ pc[i] = "createResult"
    /\ results' = results \cup
           {[_id |-> i, studentMatric |-> body[i].matric,
             courseCode |-> body[i].courseCode, score |-> scored[i].score,
             total |-> scored[i].total, caScore |-> scored[i].caScore,
             totalScore |-> scored[i].totalScore]}
    /\ Becomes(Finish(Respond(Local, i, 200), i))
    /\ scored' = [scored EXCEPT ![i] = NoScore]
    /\ UNCHANGED << gateVars, tokenVars, MAX_CONCURRENT_SUBMISSIONS, questions, submissions >>

\* a catch block that logs the error and sends no response
StoreErrorSilent(i) ==
    /\ pc[i] \in Pending
    /\ Becomes(Finish(Local, i))
    /\ scored' = [scored EXCEPT ![i] = NoScore]
    /\ UNCHANGED << gateVars, tokenVars, MAX_CONCURRENT_SUBMISSIONS, questions, submissions, results >>

\* lines 693-699: the awaited datastore call rejects; catch, then finally
StoreError(i) ==
    /\ pc[i] \in Pending
    /\ Becomes(Finish(Respond(Local, i, 500), i))
    /\ scored' = [scored EXCEPT ![i] = NoScore]
    /\ UNCHANGED << gateVars, tokenVars, MAX_CONCURRENT_SUBMISSIONS, questions, submissions, results >>

Next ==
    \/ \E b \in Bodies : Submit(b)
    \/ \E i \in ReqIds : FindSubmission(i)
    \/ \E i \in ReqIds : CreateSubmission(i)
    \/ \E i \in ReqIds : FindQuestions(i)
    \/ \E i \in ReqIds : FindResult(i)
    \/ \E i \in ReqIds : CreateResult(i)
    \/ \E i \in ReqIds : StoreError(i)

Spec == Init /\ [][Next]_vars

\* the datastore call flow i awaits resolves or rejects
FlowStep(i) ==
    \/ FindSubmission(i) \/ CreateSubmission(i) \/ FindQuestions(i)
    \/ FindResult(i) \/ CreateResult(i) \/ StoreError(i)

\* The runs the liveness claim is checked on: a valid body, which a second
\* request repeats, and a body that fails validation.
LiveBodies ==
    { Body("m1", "c1", Obj([q \in {"q1", "q2"} |-> Str(IF q = "q1" THEN "a" ELSE "b")])),
      Body("", "c1", Obj([q \in {"q1"} |-> Str("a")])) }

LiveNext ==
    \/ \E b \in LiveBodies : Submit(b)
    \/ \E i \in ReqIds : FindSubmission(i)
    \/ \E i \in ReqIds : CreateSubmission(i)
    \/ \E i \in ReqIds : FindQuestions(i)
    \/ \E i \in ReqIds : FindResult(i)
    \/ \E i \in ReqIds : CreateResult(i)
    \/ \E i \in ReqIds : StoreError(i)

\* some awaited datastore call eventually settles while one is outstanding
LiveSpec == Init /\ [][LiveNext]_vars /\ WF_vars(\E i \in ReqIds : FlowStep(i))

\* Runs of one submission against a datastore that does not fail, over every
\* question store and body
SingleInit ==
    /\ MAX_CONCURRENT_SUBMISSIONS \in 1 .. MaxCap
    /\ questions \in QuestionStores
    /\ submissionQueue = << >>
    /\ activeSubmissions = 0
    /\ body = [i \in ReqIds |-> NoBody]
    /\ pc = [i \in ReqIds |-> "unsent"]
    /\ scored = [i \in ReqIds |-> NoScore]
    /\ responses = [i \in ReqIds |-> << >>]
    /\ submissions = {}
    /\ results = {}
    /\ admitted = << >>
    /\ resultAtStart = [i \in ReqIds |-> FALSE]
    /\ GateFresh
    /\ TokenFresh

SubmitSingle(b) == pc[1] = "unsent" /\ Submit(b)

SingleNext ==
    \/ \E b \in SingleBodies : SubmitSingle(b)
    \/ \E i \in ReqIds : FindSubmission(i)
    \/ \E i \in ReqIds : CreateSubmission(i)
    \/ \E i \in ReqIds : FindQuestions(i)
    \/ \E i \in ReqIds : FindResult(i)
    \/ \E i \in ReqIds : CreateResult(i)

SingleSpec == SingleInit /\ [][SingleNext]_vars

----------------------------------------------------------------------------
(* Actions of the access gate *)

GateUnsent == {i \in GateIds : gate[i].kind = "none"}
NextGateId == CHOOSE j \in GateUnsent : \A k \in GateUnsent : j <= k

\* request i ends with response r
Answer(i, r) == [gate EXCEPT ![i].pc = "done", ![i].resp = r]

\* the student a login has matched at line 364
StudentOf(i) == CHOOSE s \in FindStudent(gate[i].matric, gate[i].password) : TRUE

AtLogin(i, p) == gate[i].kind = "login" /\ gate[i].pc = p

\* lines 351-358: POST /api/students/login up to the session lookup
StartLogin(m, pw) ==
    /\ GateUnsent # {}
    /\ gate' = [gate EXCEPT ![NextGateId] =
                   [kind |-> "login", pc |-> "session", matric |-> ToUpperCase(m),
                    password |-> pw, resp |-> ""]]
    /\ UNCHANGED << pipeVars, tokenVars, sessionDocs, allowedGroups, scheduled, studentSessions,
                    lastToggle, lastRule >>

\* a login that does not look at the session flag
LoginSessionSkip(i) ==
    /\ AtLogin(i, "session")
    /\ gate' = [gate EXCEPT ![i].pc = "student"]
    /\ UNCHANGED << pipeVars, tokenVars, sessionDocs, allowedGroups, scheduled, studentSessions,
                    lastToggle, lastRule >>

\* lines 358-361: SessionControl.findOne resolves
LoginSession(i) ==
    /\ AtLogin(i, "session")
    /\ gate' = IF SessionActive
               THEN [gate EXCEPT ![i].pc = "student"]
               ELSE Answer(i, "403 session not active")
    /\ UNCHANGED << pipeVars, tokenVars, sessionDocs, allowedGroups, scheduled, studentSessions,
                    lastToggle, lastRule >>

\* lines 364-367: Student.findOne resolves
LoginStudent(i) ==
    /\ AtLogin(i, "student")
    /\ gate' = IF FindStudent(gate[i].matric, gate[i].password) # {}
               THEN [gate EXCEPT ![i].pc = "group"]
               ELSE Answer(i, "401 invalid credentials")
    /\ UNCHANGED << pipeVars, tokenVars, sessionDocs, allowedGroups, scheduled, studentSessions,
                    lastToggle, lastRule >>

\* lines 370-378: AllowedGroup.findOne resolves
LoginGroup(i) ==
    /\ AtLogin(i, "group")
    /\ gate' = IF FindAllowedGroup(StudentOf(i).department, StudentOf(i).level) # {}
               THEN [gate EXCEPT ![i].pc = "schedule"]
               ELSE Answer(i, "403 group restricted")
    /\ UNCHANGED << pipeVars, tokenVars, sessionDocs, allowedGroups, scheduled, studentSessions,
                    lastToggle, lastRule >>

\* lines 381-389: ScheduledStudent.findOne resolves
LoginSchedule(i) ==
    /\ AtLogin(i, "schedule")
    /\ IF FindScheduled(StudentOf(i).matric) # {}
       THEN /\ studentSessions' = studentSessions \cup {gate[i].matric}
            /\ gate' = Answer(i, "200 login successful")
       ELSE /\ studentSessions' = studentSessions
            /\ gate' = Answer(i, "403 not scheduled")
    /\ UNCHANGED << pipeVars, tokenVars, sessionDocs, allowedGroups, scheduled, lastToggle, lastRule >>

\* lines 422-426: POST /api/schedule/session up to the lookup; !!active
StartToggle(v) ==
    /\ GateUnsent # {}
    /\ gate' = [gate EXCEPT ![NextGateId] =
                   [kind |-> "toggle", pc |-> "find", active |-> Truthy(v),
                    loc |-> 0, seen |-> FALSE, resp |-> ""]]
    /\ UNCHANGED << pipeVars, tokenVars, sessionDocs, allowedGroups, scheduled, studentSessions,
                    lastToggle, lastRule >>

\* lines 426-427: SessionControl.findOne resolves; a new document defaults to false
ToggleFind(i) ==
    /\ gate[i].kind = "toggle" /\ gate[i].pc = "find"
    /\ gate' = [gate EXCEPT ![i].pc = "save", ![i].loc = FindSession,
                            ![i].seen = SessionActive]
    /\ UNCHANGED << pipeVars, tokenVars, sessionDocs, allowedGroups, scheduled, studentSessions,
                    lastToggle, lastRule >>

\* lines 428-431: session.save() resolves: an insert for a new document, an
\* update of the loaded document when the value was modified, nothing otherwise
ToggleSave(i) ==
    /\ gate[i].kind = "toggle" /\ gate[i].pc = "save"
    /\ sessionDocs' =
           IF gate[i].loc = 0 THEN Append(sessionDocs, gate[i].active)
           ELSE IF gate[i].seen # gate[i].active
                THEN [sessionDocs EXCEPT ![gate[i].loc] = gate[i].active]
                ELSE sessionDocs
    /\ lastToggle' = IF gate[i].active THEN "active" ELSE "inactive"
    /\ gate' = Answer(i, "200 session updated")
    /\ UNCHANGED << pipeVars, tokenVars, allowedGroups, scheduled, studentSessions, lastRule >>

\* lines 709-717: POST /api/admin/access-control up to the lookup
StartAccess(d, l, st) ==
    /\ GateUnsent # {}
    /\ gate' = [gate EXCEPT ![NextGateId] =
                   [kind |-> "access", department |-> d, level |-> l, status |-> st,
                    loc |-> 0, seen |-> "",
                    pc |-> IF d = "" \/ l = "" \/ st = "" THEN "done" ELSE "find",
                    resp |-> IF d = "" \/ l = "" \/ st = ""
                             THEN "400 all fields are required" ELSE ""]]
    /\ UNCHANGED << pipeVars, tokenVars, sessionDocs, allowedGroups, scheduled, studentSessions,
                    lastToggle, lastRule >>

\* line 717: AllowedGroup.findOne({ department, level }) resolves
AccessFind(i) ==
    /\ gate[i].kind = "access" /\ gate[i].pc = "find"
    /\ LET k == FindGroup(gate[i].department, gate[i].level)
       IN  gate' = [gate EXCEPT ![i].pc = "save", ![i].loc = k,
                       ![i].seen = IF k = 0 THEN "" ELSE allowedGroups[k].status]
    /\ UNCHANGED << pipeVars, tokenVars, sessionDocs, allowedGroups, scheduled, studentSessions,
                    lastToggle, lastRule >>

\* lines 719-726: existing.save() or AllowedGroup.create resolves
AccessSave(i) ==
    /\ gate[i].kind = "access" /\ gate[i].pc = "save"
    /\ allowedGroups' =
           IF gate[i].loc = 0
           THEN Append(allowedGroups,
                       AllowedGroup(gate[i].department, gate[i].level, gate[i].status))
           ELSE IF gate[i].seen # gate[i].status
                THEN [allowedGroups EXCEPT ![gate[i].loc].status = gate[i].status]
                ELSE allowedGroups
    /\ lastRule' = [lastRule EXCEPT ![<< gate[i].department, gate[i].level >>] =
                       gate[i].status]
    /\ gate' = Answer(i, "200 access set")
    /\ UNCHANGED << pipeVars, tokenVars, sessionDocs, scheduled, studentSessions, lastToggle >>

\* lines 449-453: POST /api/schedule/check up to the session lookup
StartCheck(m) ==
    /\ GateUnsent # {}
    /\ gate' = [gate EXCEPT ![NextGateId] =
                   [kind |-> "check", pc |-> "session", matric |-> m,
                    session |-> FALSE, resp |-> ""]]
    /\ UNCHANGED << pipeVars, tokenVars, sessionDocs, allowedGroups, scheduled, studentSessions,
                    lastToggle, lastRule >>

\* line 453: SessionControl.findOne resolves
CheckSession(i) ==
    /\ gate[i].kind = "check" /\ gate[i].pc = "session"
    /\ gate' = [gate EXCEPT ![i].pc = "schedule", ![i].session = SessionActive]
    /\ UNCHANGED << pipeVars, tokenVars, sessionDocs, allowedGroups, scheduled, studentSessions,
                    lastToggle, lastRule >>

\* lines 454-464: ScheduledStudent.findOne resolves; the two checks and the answer
CheckSchedule(i) ==
    /\ gate[i].kind = "check" /\ gate[i].pc = "schedule"
    /\ gate' = IF ~gate[i].session THEN Answer(i, "403 session not active")
               ELSE IF FindScheduled(gate[i].matric) = {}
                    THEN Answer(i, "403 not scheduled")
                    ELSE Answer(i, "200 cleared to proceed")
    /\ UNCHANGED << pipeVars, tokenVars, sessionDocs, allowedGroups, scheduled, studentSessions,
                    lastToggle, lastRule >>

\* lines 777-809: the schedule upload upserts one row per matric
ScheduleUpload(m) ==
    /\ scheduled' = scheduled \cup {ScheduledStudent(m)}
    /\ UNCHANGED << pipeVars, tokenVars, sessionDocs, allowedGroups, studentSessions, gate,
                    lastToggle, lastRule >>

\* lines 824-828: ScheduledStudent.deleteMany({})
ScheduleClear ==
    /\ scheduled' = {}
    /\ UNCHANGED << pipeVars, tokenVars, sessionDocs, allowedGroups, studentSessions, gate,
                    lastToggle, lastRule >>

\* The stores the admin routes leave behind when called one after the other:
\* no SessionControl document or one, no rule for a group or one, the schedule
\* empty or uploaded
GateInit ==
    /\ MAX_CONCURRENT_SUBMISSIONS = MaxCap
    /\ questions = ExamQuestions
    /\ submissionQueue = << >>
    /\ activeSubmissions = 0
    /\ body = [i \in ReqIds |-> NoBody]
    /\ pc = [i \in ReqIds |-> "unsent"]
    /\ scored = [i \in ReqIds |-> NoScore]
    /\ responses = [i \in ReqIds |-> << >>]
    /\ submissions = {}
    /\ results = {}
    /\ admitted = << >>
    /\ resultAtStart = [i \in ReqIds |-> FALSE]
    /\ \E t \in {"none", "active", "inactive"} :
          /\ lastToggle = t
          /\ sessionDocs = IF t = "none" THEN << >> ELSE << t = "active" >>
    /\ \E st \in {"none", "allowed", "blocked"} :
          /\ lastRule = [g \in Groups |-> st]
          /\ allowedGroups = IF st = "none" THEN << >>
                             ELSE << AllowedGroup("CS", "ND", st) >>
    /\ scheduled \in {{}, {ScheduledStudent("COS/1")}}
    /\ studentSessions = {}
    /\ gate = [i \in GateIds |-> IdleGate]
    /\ TokenFresh

GateNext ==
    \/ \E m \in MatricInputs, pw \in PasswordInputs : StartLogin(m, pw)
    \/ \E i \in GateIds : LoginSession(i)
    \/ \E i \in GateIds : LoginStudent(i)
    \/ \E i \in GateIds : LoginGroup(i)
    \/ \E i \in GateIds : LoginSchedule(i)
    \/ \E v \in ActiveInputs : StartToggle(v)
    \/ \E i \in GateIds : ToggleFind(i)
    \/ \E i \in GateIds : ToggleSave(i)
    \/ \E g \in Groups, st \in StatusInputs : StartAccess(g[1], g[2], st)
    \/ \E i \in GateIds : AccessFind(i)
    \/ \E i \in GateIds : AccessSave(i)
    \/ \E m \in MatricInputs : StartCheck(m)
    \/ \E i \in GateIds : CheckSession(i)
    \/ \E i \in GateIds : CheckSchedule(i)
    \/ \E m \in ScheduleMatrics : ScheduleUpload(m)
    \/ ScheduleClear

GateSpec == GateInit /\ [][GateNext]_vars

----------------------------------------------------------------------------
(* Tokens, payment verification and registration *)

\* lines 1119, 1085: the number of manual tokens an email may hold
ManualTokenLimit == 2

\* 'CBT-' + Math.floor(100000 + Math.random() * 900000), lines 1048 and 1123
TokenCodes == {"CBT-100000", "CBT-999999"}

References == {"r1", "r2"}
EmailInputs == {"a@x.y", "bad"}
GatewayStatuses == {"success", "failed"}

\* lines 1079, 1113: !email || !/^\S+@\S+\.\S+$/.test(email)
EmailOk(e) == e = "a@x.y" \/ e = "b@x.y"

\* tokenSchema, lines 129-138: source defaults to 'manual'
Token(code, email, ref, st, src) ==
    [token |-> code, studentEmail |-> email, reference |-> ref, status |-> st,
     source |-> src]

\* transactionSchema, lines 122-128
Transaction(ref, email, st) == [reference |-> ref, email |-> email, status |-> st]

\* the first element of a store that satisfies a query, 0 when there is none
First(idx) == IF idx = {} THEN 0 ELSE CHOOSE k \in idx : \A j \in idx : k <= j

\* lines 242, 303, 1190: Token.findOne({ token, status: "success" })
FindValidToken(code) ==
    First({k \in DOMAIN tokens : tokens[k].token = code /\ tokens[k].status = "success"})

\* lines 1153, 1236: Token.findOne({ token })
FindToken(code) == First({k \in DOMAIN tokens : tokens[k].token = code})

\* line 1039: Token.findOne({ reference })
FindTokenOf(ref) == First({k \in DOMAIN tokens : tokens[k].reference = ref})

\* line 1117: Token.countDocuments({ studentEmail: email, source: 'manual' })
CountManual(e) ==
    Cardinality({k \in DOMAIN tokens :
                    tokens[k].studentEmail = e /\ tokens[k].source = "manual"})

\* lines 1149-1168: GET /api/tokens/validate/:token
Validate(code) ==
    IF FindToken(code) = 0 THEN "404 not found"
    ELSE IF tokens[FindToken(code)].status # "success" THEN "400 not valid"
    ELSE "200 valid"

\* the body of a registration request; "" stands for a field that is absent
RegBody(name, matric, phone, email, password, confirmPassword, passport, token,
        level) ==
    [name |-> name, matric |-> matric, phone |-> phone, email |-> email,
     password |-> password, confirmPassword |-> confirmPassword,
     passport |-> passport, token |-> token, level |-> level]

RegBodies ==
    { RegBody("n", Str("cos/1"), "1", "a@x.y", "p", "p", "f", "CBT-100000", "ND"),
      RegBody("n", Str("cos/2"), "2", "b@x.y", "p", "p", "f", "CBT-100000", "ND"),
      RegBody("n", Str("COS/1"), "2", "b@x.y", "p", "p", "f", "CBT-100000", "ND"),
      RegBody("", Str("cos/1"), "1", "a@x.y", "p", "p", "f", "CBT-100000", "ND"),
      RegBody("n", Str("cos/1"), "1", "a@x.y", "p", "q", "f", "CBT-100000", "ND"),
      RegBody("n", Undefined, "1", "a@x.y", "p", "p", "f", "CBT-100000", "ND"),
      RegBody("n", Str("cos/1"), "1", "a@x.y", "p", "p", "f", "CBT-000000", "ND") }

Endpoints == {"form", "json", "public"}

\* lines 229, 295: matric.toUpperCase()
UpperMatric(m) ==
    IF m.val = "cos/1" THEN "COS/1" ELSE IF m.val = "cos/2" THEN "COS/2" ELSE m.val

\* lines 232, 298, 1180: a required field is missing
FieldsMissing(e, b) ==
    \/ b.name = "" \/ b.phone = "" \/ b.email = "" \/ b.password = "" \/ b.token = ""
    \/ e # "json" /\ (b.confirmPassword = "" \/ b.passport = "")
    \/ e # "public" /\ (UpperMatric(b.matric) = "" \/ b.level = "")

\* what the handler answers before its first lookup, "" when it goes on
RegEarlyAnswer(e, b) ==
    IF e # "public" /\ b.matric = Undefined THEN "500 error"
    ELSE IF FieldsMissing(e, b) THEN "400 fields required"
    ELSE IF e # "json" /\ b.password # b.confirmPassword THEN "400 passwords do not match"
    ELSE ""

TokUnsent == {i \in TokIds : treq[i].kind = "none"}
NextTokId == CHOOSE j \in TokUnsent : \A k \in TokUnsent : j <= k

\* request i ends with response r
Reply(i, r) == [treq EXCEPT ![i].pc = "done", ![i].resp = r]

AtRegister(i, p) == treq[i].kind = "register" /\ treq[i].pc = p

\* lines 248, 309, 1196: a stored account has the matric or email (student),
\* the email or phone (public user) of request i
AccountExists(i) ==
    IF treq[i].store = "student"
    THEN \E s \in students : s.matric = treq[i].matric \/ s.email = treq[i].email
    ELSE \E u \in publicUsers : u.email = treq[i].email \/ u.phone = treq[i].phone

\* lines 223-242, 290-303, 1174-1190: a registration request up to the token lookup
StartRegister(e, b) ==
    /\ TokUnsent # {}
    /\ treq' = [treq EXCEPT ![NextTokId] =
                   [kind |-> "register",
                    store |-> IF e = "public" THEN "public" ELSE "student",
                    pc |-> IF RegEarlyAnswer(e, b) = "" THEN "token" ELSE "done",
                    matric |-> IF e = "public" \/ b.matric = Undefined THEN ""
                               ELSE UpperMatric(b.matric),
                    email |-> b.email, phone |-> b.phone, token |-> b.token,
                    loc |-> 0, resp |-> RegEarlyAnswer(e, b)]]
    /\ UNCHANGED << pipeVars, gateVars, tokens, transactions, students, publicUsers >>

\* lines 242-245: Token.findOne({ token, status: "success" }) resolves
RegToken(i) ==
    /\ AtRegister(i, "token")
    /\ treq' = IF FindValidToken(treq[i].token) = 0
               THEN Reply(i, "400 invalid or used token")
               ELSE [treq EXCEPT ![i].pc = "duplicate",
                                 ![i].loc = FindValidToken(treq[i].token)]
    /\ UNCHANGED << pipeVars, gateVars, tokens, transactions, students, publicUsers >>

\* lines 248-255: the duplicate lookup resolves
RegDuplicate(i) ==
    /\ AtRegister(i, "duplicate")
    /\ treq' = IF AccountExists(i) THEN Reply(i, "409 already exists")
               ELSE [treq EXCEPT ![i].pc = "saveAccount"]
    /\ UNCHANGED << pipeVars, gateVars, tokens, transactions, students, publicUsers >>

\* an account write that marks the token used although the write failed
RegSaveAccountConsume(i) ==
    /\ AtRegister(i, "saveAccount")
    /\ IF AccountExists(i)
       THEN /\ treq' = Reply(i, "409 duplicate key")
            /\ tokens' = [tokens EXCEPT ![treq[i].loc].status = "used"]
            /\ UNCHANGED << students, publicUsers >>
       ELSE /\ treq' = [treq EXCEPT ![i].pc = "saveToken"]
            /\ tokens' = tokens
            /\ IF treq[i].store = "student"
               THEN /\ students' = students \cup
                           {[matric |-> treq[i].matric, email |-> treq[i].email]}
                    /\ publicUsers' = publicUsers
               ELSE /\ publicUsers' = publicUsers \cup
                           {[email |-> treq[i].email, phone |-> treq[i].phone]}
                    /\ students' = students
    /\ UNCHANGED << pipeVars, gateVars, transactions >>

\* lines 261-272 and 280-283: newStudent.save() resolves, or rejects with the
\* duplicate-key error of a unique index
RegSaveAccount(i) ==
    /\ AtRegister(i, "saveAccount")
    /\ IF AccountExists(i)
       THEN /\ treq' = Reply(i, "409 duplicate key")
            /\ UNCHANGED << students, publicUsers >>
       ELSE /\ treq' = [treq EXCEPT ![i].pc = "saveToken"]
            /\ IF treq[i].store = "student"
               THEN /\ students' = students \cup
                           {[matric |-> treq[i].matric, email |-> treq[i].email]}
                    /\ publicUsers' = publicUsers
               ELSE /\ publicUsers' = publicUsers \cup
                           {[email |-> treq[i].email, phone |-> treq[i].phone]}
                    /\ students' = students
    /\ UNCHANGED << pipeVars, gateVars, tokens, transactions >>

\* lines 275-278: validToken.save() resolves
RegSaveToken(i) ==
    /\ AtRegister(i, "saveToken")
    /\ tokens' = [tokens EXCEPT ![treq[i].loc].status = "used"]
    /\ treq' = Reply(i, "201 registered")
    /\ UNCHANGED << pipeVars, gateVars, transactions, students, publicUsers >>

\* lines 280-285: an awaited datastore call of the registration rejects
RegStoreError(i) ==
    /\ treq[i].kind = "register"
    /\ treq[i].pc \in {"token", "duplicate", "saveAccount", "saveToken"}
    /\ treq' = Reply(i, "500 error")
    /\ UNCHANGED << pipeVars, gateVars, tokens, transactions, students, publicUsers >>

\* lines 1232-1250: PATCH /api/tokens/mark-used/:token
MarkUsed(code) ==
    /\ FindToken(code) # 0
    /\ tokens' = [tokens EXCEPT ![FindToken(code)].status = "used"]
    /\ UNCHANGED << pipeVars, gateVars, transactions, students, publicUsers, treq >>

\* lines 1093-1106 and 1009: a Transaction is recorded for a reference
TransactionSave(ref, e) ==
    /\ \A x \in transactions : x.reference # ref
    /\ transactions' = transactions \cup {Transaction(ref, e, "pending")}
    /\ UNCHANGED << pipeVars, gateVars, tokens, students, publicUsers, treq >>

\* lines 1018-1022: GET /api/payment/verify/:reference up to the gateway call
StartVerify(ref) ==
    /\ TokUnsent # {}
    /\ treq' = [treq EXCEPT ![NextTokId] =
                   [kind |-> "verify", pc |-> "gateway", reference |-> ref,
                    status |-> "", email |-> "", code |-> "", resp |-> ""]]
    /\ UNCHANGED << pipeVars, gateVars, tokens, transactions, students, publicUsers >>

\* lines 1022-1026: the gateway answers with the status of the payment
VerifyGateway(i, st) ==
    /\ treq[i].kind = "verify" /\ treq[i].pc = "gateway"
    /\ treq' = [treq EXCEPT ![i].pc = "transaction", ![i].status = st]
    /\ UNCHANGED << pipeVars, gateVars, tokens, transactions, students, publicUsers >>

\* lines 1069-1072: the gateway call rejects
VerifyGatewayError(i) ==
    /\ treq[i].kind = "verify" /\ treq[i].pc = "gateway"
    /\ treq' = Reply(i, "500 verification failed")
    /\ UNCHANGED << pipeVars, gateVars, tokens, transactions, students, publicUsers >>

\* line 1052: transaction.email of the Transaction found, "" when none is
TransactionEmail(ref) ==
    IF \A x \in transactions : x.reference # ref THEN ""
    ELSE (CHOOSE x \in transactions : x.reference = ref).email

\* a verification that goes on without a recorded Transaction
VerifyTransactionAny(i) ==
    /\ treq[i].kind = "verify" /\ treq[i].pc = "transaction"
    /\ transactions' =
           {IF x.reference = treq[i].reference
            THEN Transaction(x.reference, x.email, treq[i].status) ELSE x :
              x \in transactions}
    /\ treq' = IF treq[i].status = "success"
               THEN [treq EXCEPT ![i].pc = "findToken",
                                 ![i].email = TransactionEmail(treq[i].reference)]
               ELSE Reply(i, "400 payment not successful")
    /\ UNCHANGED << pipeVars, gateVars, tokens, students, publicUsers >>

\* lines 1028-1038 and 1066-1068: Transaction.findOneAndUpdate resolves
VerifyTransaction(i) ==
    /\ treq[i].kind = "verify" /\ treq[i].pc = "transaction"
    /\ transactions' =
           {IF x.reference = treq[i].reference
            THEN Transaction(x.reference, x.email, treq[i].status) ELSE x :
              x \in transactions}
    /\ treq' = IF \A x \in transactions : x.reference # treq[i].reference
               THEN Reply(i, "404 transaction not found")
               ELSE IF treq[i].status = "success"
                    THEN [treq EXCEPT ![i].pc = "findToken",
                                      ![i].email = TransactionEmail(treq[i].reference)]
                    ELSE Reply(i, "400 payment not successful")
    /\ UNCHANGED << pipeVars, gateVars, tokens, students, publicUsers >>

\* a re-verification that sets the token it finds back to 'success'
VerifyFindTokenReset(i) ==
    /\ treq[i].kind = "verify" /\ treq[i].pc = "findToken"
    /\ IF FindTokenOf(treq[i].reference) # 0
       THEN /\ treq' = [Reply(i, "200 token exists") EXCEPT
                           ![i].code = tokens[FindTokenOf(treq[i].reference)].token]
            /\ tokens' = [tokens EXCEPT
                             ![FindTokenOf(treq[i].reference)].status = "success"]
       ELSE /\ \E c \in TokenCodes :
                  treq' = [treq EXCEPT ![i].pc = "saveToken", ![i].code = c]
            /\ tokens' = tokens
    /\ UNCHANGED << pipeVars, gateVars, transactions, students, publicUsers >>

\* lines 1039-1048: Token.findOne({ reference }) resolves; the new code is drawn
VerifyFindToken(i) ==
    /\ treq[i].kind = "verify" /\ treq[i].pc = "findToken"
    /\ IF FindTokenOf(treq[i].reference) # 0
       THEN treq' = [Reply(i, "200 token exists") EXCEPT
                        ![i].code = tokens[FindTokenOf(treq[i].reference)].token]
       ELSE \E c \in TokenCodes :
               treq' = [treq EXCEPT ![i].pc = "saveToken", ![i].code = c]
    /\ UNCHANGED << pipeVars, gateVars, tokens, transactions, students, publicUsers >>

\* lines 1050-1065: newToken.save() resolves; source is not set and defaults
VerifySaveToken(i) ==
    /\ treq[i].kind = "verify" /\ treq[i].pc = "saveToken"
    /\ tokens' = Append(tokens,
           Token(treq[i].code, treq[i].email, treq[i].reference, "success", "manual"))
    /\ treq' = Reply(i, "200 token issued")
    /\ UNCHANGED << pipeVars, gateVars, transactions, students, publicUsers >>

\* lines 1110-1117: POST /api/tokens/generate/manual up to the count
StartManual(e) ==
    /\ TokUnsent # {}
    /\ treq' = [treq EXCEPT ![NextTokId] =
                   [kind |-> "manual", email |-> e, code |-> "",
                    pc |-> IF EmailOk(e) THEN "count" ELSE "done",
                    resp |-> IF EmailOk(e) THEN "" ELSE "400 invalid email"]]
    /\ UNCHANGED << pipeVars, gateVars, tokens, transactions, students, publicUsers >>

\* lines 1117-1123: Token.countDocuments resolves; the new code is drawn
ManualCount(i) ==
    /\ treq[i].kind = "manual" /\ treq[i].pc = "count"
    /\ IF CountManual(treq[i].email) >= ManualTokenLimit
       THEN treq' = Reply(i, "403 limit reached")
       ELSE \E c \in TokenCodes :
               treq' = [treq EXCEPT ![i].pc = "save", ![i].code = c]
    /\ UNCHANGED << pipeVars, gateVars, tokens, transactions, students, publicUsers >>

\* lines 1125-1135: newToken.save() resolves
ManualSave(i) ==
    /\ treq[i].kind = "manual" /\ treq[i].pc = "save"
    /\ tokens' = Append(tokens, Token(treq[i].code, treq[i].email, "", "success", "manual"))
    /\ treq' = Reply(i, "200 token issued")
    /\ UNCHANGED << pipeVars, gateVars, transactions, students, publicUsers >>

\* The stores after the token routes were called one after the other: no
\* token, or one token from a verified payment, or one from a manual
\* generation
TokenInit ==
    /\ MAX_CONCURRENT_SUBMISSIONS = MaxCap
    /\ questions = ExamQuestions
    /\ submissionQueue = << >>
    /\ activeSubmissions = 0
    /\ body = [i \in ReqIds |-> NoBody]
    /\ pc = [i \in ReqIds |-> "unsent"]
    /\ scored = [i \in ReqIds |-> NoScore]
    /\ responses = [i \in ReqIds |-> << >>]
    /\ submissions = {}
    /\ results = {}
    /\ admitted = << >>
    /\ resultAtStart = [i \in ReqIds |-> FALSE]
    /\ GateFresh
    /\ \/ tokens = << >> /\ transactions = {}
       \/ /\ tokens = << Token("CBT-100000", "a@x.y", "r1", "success", "manual") >>
          /\ transactions = {Transaction("r1", "a@x.y", "success")}
       \/ /\ tokens = << Token("CBT-100000", "a@x.y", "", "success", "manual") >>
          /\ transactions = {}
    /\ students = {}
    /\ publicUsers = {}
    /\ treq = [i \in TokIds |-> IdleToken]

\* payment verification, manual generation and mark-used
TokenNext ==
    \/ \E r \in References : TransactionSave(r, "a@x.y")
    \/ \E r \in References : StartVerify(r)
    \/ \E i \in TokIds, st \in GatewayStatuses : VerifyGateway(i, st)
    \/ \E i \in TokIds : VerifyGatewayError(i)
    \/ \E i \in TokIds : VerifyTransaction(i)
    \/ \E i \in TokIds : VerifyFindToken(i)
    \/ \E i \in TokIds : VerifySaveToken(i)
    \/ \E e \in EmailInputs : StartManual(e)
    \/ \E i \in TokIds : ManualCount(i)
    \/ \E i \in TokIds : ManualSave(i)
    \/ \E c \in TokenCodes : MarkUsed(c)

TokenSpec == TokenInit /\ [][TokenNext]_vars

\* A token of a verified payment is in the store and no account is
RegInit ==
    /\ TokenInit
    /\ tokens # << >>
    /\ transactions # {}

\* the three registration routes and mark-used
RegNext ==
    \/ \E e \in Endpoints, b \in RegBodies : StartRegister(e, b)
    \/ \E i \in TokIds : RegToken(i)
    \/ \E i \in TokIds : RegDuplicate(i)
    \/ \E i \in TokIds : RegSaveAccount(i)
    \/ \E i \in TokIds : RegSaveToken(i)
    \/ \E i \in TokIds : RegStoreError(i)
    \/ \E c \in TokenCodes : MarkUsed(c)

RegSpec == RegInit /\ [][RegNext]_vars

\* The life of a token through every route that reads or writes one: a
\* registration on each of the three routes, a verification of its payment,
\* a manual generation and mark-used
LifeBodies ==
    { RegBody("n", Str("cos/1"), "1", "a@x.y", "p", "p", "f", "CBT-100000", "ND") }

TokenLifeNext ==
    \/ \E e \in Endpoints, b \in LifeBodies : StartRegister(e, b)
    \/ \E i \in TokIds : RegToken(i)
    \/ \E i \in TokIds : RegDuplicate(i)
    \/ \E i \in TokIds : RegSaveAccount(i)
    \/ \E i \in TokIds : RegSaveToken(i)
    \/ TransactionSave("r1", "a@x.y")
    \/ StartVerify("r1")
    \/ \E i \in TokIds, st \in GatewayStatuses : VerifyGateway(i, st)
    \/ \E i \in TokIds : VerifyTransaction(i)
    \/ \E i \in TokIds : VerifyFindToken(i)
    \/ \E i \in TokIds : VerifySaveToken(i)
    \/ StartManual("a@x.y")
    \/ \E i \in TokIds : ManualCount(i)
    \/ \E i \in TokIds : ManualSave(i)
    \/ \E c \in TokenCodes : MarkUsed(c)

TokenLifeSpec == TokenInit /\ [][TokenLifeNext]_vars

----------------------------------------------------------------------------
(* Claims *)

InProcessing == {i \in ReqIds : pc[i] \in Pending}
Sent == {i \in ReqIds : pc[i] # "unsent"}

\* C1: in every reachable state the number of submissions being processed,
\* and the counter activeSubmissions, are at most MAX_CONCURRENT_SUBMISSIONS.
C1_CapNeverExceeded ==
    /\ activeSubmissions <= MAX_CONCURRENT_SUBMISSIONS
    /\ Cardinality(InProcessing) <= MAX_CONCURRENT_SUBMISSIONS

\* the cap is reached with a submission waiting and another one finished
C1_Witness ==
    /\ activeSubmissions = MAX_CONCURRENT_SUBMISSIONS
    /\ Cardinality(InProcessing) = MAX_CONCURRENT_SUBMISSIONS
    /\ Len(submissionQueue) >= 1
    /\ \E i \in ReqIds : pc[i] = "done"

\* no request waits, none is in processing and the counter is back at 0
Quiescent ==
    /\ submissionQueue = << >>
    /\ activeSubmissions = 0
    /\ \A i \in ReqIds : pc[i] \in {"unsent", "done"}

\* C2: when every datastore call eventually resolves or rejects, the system
\* is quiescent again and again, with nothing but the flows' own steps to
\* drain the queue; a finished request stays finished, so every request that
\* was enqueued has by then been admitted and has finished.
C2_AllEventuallyComplete == []<>Quiescent

\* more submissions than the cap were sent and all of them have finished
C2_Witness ==
    /\ \A i \in ReqIds : pc[i] = "done"
    /\ MaxReqs > MAX_CONCURRENT_SUBMISSIONS
    /\ submissionQueue = << >>
    /\ activeSubmissions = 0

\* C3: submissions leave the queue in the order they entered it. Request ids
\* are given in the order of arrival, so the requests admitted so far followed
\* by those still waiting are 1, 2, ..., n in this order.
C3_FifoAdmission ==
    /\ admitted \o submissionQueue = [k \in 1 .. Cardinality(Sent) |-> k]
    /\ \A k \in 1 .. Len(submissionQueue) : pc[submissionQueue[k]] = "queued"

\* all requests were admitted in order, and the second finished before the first
C3_Witness ==
    /\ Len(admitted) = MaxReqs
    /\ pc[1] \in Pending
    /\ pc[2] = "done"
    /\ MAX_CONCURRENT_SUBMISSIONS < MaxReqs

\* C4: a request has no response while it waits or is processed and exactly
\* one response once its processing has ended, whatever the outcome.
C4_ExactlyOneResponse ==
    \A i \in ReqIds : Len(responses[i]) = IF pc[i] = "done" THEN 1 ELSE 0

\* three requests ended with three different outcomes, one of them a 500
C4_Witness ==
    /\ \A i \in ReqIds : pc[i] = "done"
    /\ Cardinality({responses[i] : i \in ReqIds}) >= 3
    /\ \E i \in ReqIds : responses[i] = << 500 >>
    /\ \E i \in ReqIds : responses[i] = << 400 >>

SamePair(r1, r2) ==
    r1.studentMatric = r2.studentMatric /\ r1.courseCode = r2.courseCode

\* flow i has written neither a Submission nor a Result
NoWritesBy(i) ==
    /\ \A d \in submissions : d._id # i
    /\ \A r \in results : r._id # i

\* C5: in every reachable state the Result store holds at most one Result
\* per (student, course) pair.
C5_OneResultPerPair ==
    \A r1 \in results : \A r2 \in results : SamePair(r1, r2) => r1 = r2

C7_FailureFreesSlot ==
    [][\A i \in ReqIds :
          StoreError(i) =>
              /\ pc'[i] = "done"
              /\ responses'[i] = << 500 >>
              /\ activeSubmissions' = activeSubmissions - 1
                    + Cardinality({j \in ReqIds : pc[j] = "queued" /\ pc'[j] \in Pending})
              /\ activeSubmissions' = Cardinality({j \in ReqIds : pc'[j] \in Pending})
              /\ submissionQueue # << >> =>
                    /\ Len(admitted') > Len(admitted)
                    /\ admitted'[Len(admitted) + 1] = Head(submissionQueue)
              /\ submissionQueue' # << >> =>
                    activeSubmissions' = MAX_CONCURRENT_SUBMISSIONS]_vars

\* under a cap of 1 the first request failed in the store after its write of
\* the Submission, and the two requests behind it were admitted
C7_Witness ==
    /\ MAX_CONCURRENT_SUBMISSIONS = 1
    /\ responses[1] = << 500 >>
    /\ \E d \in submissions : d._id = 1
    /\ NoWritesBy(2) /\ responses[2] = << 409 >>
    /\ pc[3] \in Pending

\* the payload is structurally invalid: an id is missing or answers is no map
NotProperPayload(b) ==
    b.matric = "" \/ b.courseCode = "" \/ b.answers.type # "map"

\* C8: a submission whose payload is structurally invalid is answered with
\* a client error and writes neither a Submission nor a Result.
C8_InvalidRejected ==
    \A i \in ReqIds :
        (pc[i] # "unsent" /\ NotProperPayload(body[i])) =>
            /\ NoWritesBy(i)
            /\ pc[i] = "done" => responses[i] = << 400 >>

\* the answer map a has an entry for question id
HasEntry(a, id) == a.type = "map" /\ id \in DOMAIN a.entries

EntryEquals(a, q) == HasEntry(a, q._id) /\ a.entries[q._id] = q.correctAnswer
EntryEqualsNonEmpty(a, q) == EntryEquals(a, q) /\ a.entries[q._id] # Str("")

\* C9 as stated: the score of a Result is the number of questions whose entry
\* equals the correct answer, and total is the number of questions.
C9_ScoreCountsEqualEntries ==
    \A r \in results :
        LET a == body[r._id].answers
            qs == QuestionsOf(r.courseCode)
        IN  /\ r.score = Cardinality({q \in qs : EntryEquals(a, q)})
            /\ r.total = Cardinality(qs)

\* C9 as amended: the score is the number of questions whose entry is not
\* empty and equals the correct answer; total is the number of questions;
\* a map matching a key without empty labels scores N, no entries score 0.
C9_ScoreCountsNonEmptyMatches ==
    \A r \in results :
        LET a == body[r._id].answers
            qs == QuestionsOf(r.courseCode)
        IN  /\ r.score = Cardinality({q \in qs : EntryEqualsNonEmpty(a, q)})
            /\ r.total = Cardinality(qs)
            /\ (\A q \in qs : EntryEquals(a, q) /\ q.correctAnswer # Str(""))
                  => r.score = Cardinality(qs)
            /\ (\A q \in qs : ~HasEntry(a, q._id)) => r.score = 0

\* a Result over two questions: both entries equal the key, one of the two
\* labels is empty, and only the other one is counted
C9_Witness ==
    \E r \in results :
        LET a == body[r._id].answers
            qs == QuestionsOf(r.courseCode)
        IN  /\ r.total = 2
            /\ \A q \in qs : EntryEquals(a, q)
            /\ \E q \in qs : q.correctAnswer = Str("")
            /\ r.score = 1

\* C10: every persisted Result has 20 <= caScore <= 35, totalScore equal to
\* score + caScore, and 0 <= score <= total.
C10_ResultNumbers ==
    \A r \in results :
        /\ r.caScore \in 20 .. 35
        /\ r.totalScore = r.score + r.caScore
        /\ 0 <= r.score /\ r.score <= r.total

\* two Results, one with the lowest and one with the highest caScore
C10_Witness ==
    \E r1 \in results : \E r2 \in results :
        /\ r1.caScore = 20 /\ r1.score = r1.total /\ r1.total = 2 /\ r1.totalScore = 22
        /\ r2.caScore = 35 /\ r2.score = 0 /\ r2.totalScore = 35

----------------------------------------------------------------------------
(* Claims on the stored records and on the access gate *)

\* C11: no step changes or deletes a stored Result: every Result of the
\* store, with its score, total, caScore and totalScore, is in the store
\* after the step.
C11_ResultNeverChanges == [][\A r \in results : r \in results']_vars

\* two submissions of a pair both wrote a Submission; the one that came to
\* the Result lookup second was answered 200 and the first one's Result is
\* the only Result of the pair
C11_Witness ==
    \E i \in ReqIds : \E j \in ReqIds \ {i} :
        /\ body[i] = body[j]
        /\ pc[i] = "done" /\ pc[j] = "done"
        /\ \E d \in submissions : d._id = j
        /\ responses[j] = << 200 >>
        /\ {r._id : r \in results} = {i}

IsElement(i, q) == \E k \in DOMAIN q : q[k] = i

\* C12: a login step whose lookup finds the session off answers
\* session-inactive, whatever the rules and the schedule hold; a login that
\* saw the session on and whose student has no rule with status allowed (none
\* at all, or blocked) answers group-restricted; a login that saw the session
\* on and the group allowed and whose student is not scheduled answers
\* not-scheduled. A later reason is only given by a login that passed the
\* earlier checks.
C12_FirstFailingReason ==
    [][\A i \in GateIds :
          gate[i].kind = "login" /\ gate'[i] # gate[i] =>
              /\ AtLogin(i, "session") /\ ~SessionActive =>
                     gate'[i].resp = "403 session not active"
              /\ gate'[i].resp = "403 session not active" => gate[i].pc = "session"
              /\ /\ AtLogin(i, "group")
                 /\ \A k \in DOMAIN allowedGroups :
                        /\ allowedGroups[k].department = StudentOf(i).department
                        /\ allowedGroups[k].level = StudentOf(i).level
                        => allowedGroups[k].status = "blocked"
                 => gate'[i].resp = "403 group restricted"
              /\ gate'[i].resp = "403 group restricted" => gate[i].pc = "group"
              /\ AtLogin(i, "schedule") /\ StudentOf(i).matric \notin {s.matric : s \in scheduled}
                     => gate'[i].resp = "403 not scheduled"
              /\ gate'[i].resp = "403 not scheduled" => gate[i].pc = "schedule"]_vars

\* the session is on, the student's group is blocked and the student is not
\* scheduled: two logins are answered, both group-restricted
C12_Witness ==
    /\ SessionActive
    /\ FindGroup("CS", "ND") # 0
    /\ scheduled = {}
    /\ \A i \in GateIds :
          gate[i].kind = "login" /\ gate[i].resp = "403 group restricted"

\* the three predicates of the gate for the student with matric m
GateOpenFor(m) ==
    /\ SessionActive
    /\ \E s \in Students :
          /\ s.matric = m
          /\ FindAllowedGroup(s.department, s.level) # {}
    /\ FindScheduled(m) # {}

\* C13: the step that answers a login with success, and adds the matric to
\* studentSessions, is taken only when the session is active, an allowed rule
\* exists for the student's group and the student is scheduled.
C13_SuccessOnlyWhenAllHold ==
    [][\A i \in GateIds :
          LoginSchedule(i) /\ gate'[i].resp = "200 login successful" =>
              /\ gate[i].matric \in studentSessions'
              /\ GateOpenFor(gate[i].matric)]_vars

\* C14: a submit call is never turned away: the request is appended to the
\* tail of the queue, or, when nobody waits and a slot is free, admitted at
\* once; a request leaves the queue only by being admitted; every request
\* sent is in the queue or in the admitted list, once.
C14_NeverDropped ==
    /\ [](\A i \in Sent :
            Cardinality({k \in DOMAIN submissionQueue : submissionQueue[k] = i})
              + Cardinality({k \in DOMAIN admitted : admitted[k] = i}) = 1)
    /\ [][\A i \in ReqIds :
            /\ pc[i] = "unsent" /\ pc'[i] # "unsent" =>
                  \/ submissionQueue' = Append(submissionQueue, i)
                  \/ /\ submissionQueue = << >> /\ submissionQueue' = << >>
                     /\ admitted' = Append(admitted, i)
            /\ IsElement(i, submissionQueue) /\ ~IsElement(i, submissionQueue') =>
                  IsElement(i, admitted') /\ ~IsElement(i, admitted)]_vars

\* every slot is taken, one request waits, and one more was sent and waits
\* behind it
C14_Witness ==
    /\ activeSubmissions = MAX_CONCURRENT_SUBMISSIONS
    /\ Len(submissionQueue) = 2
    /\ Cardinality(Sent) = MaxReqs

\* C15: the duplicate lookup answers 409 only when a Result of the pair is
\* stored.
C15_ConflictOnlyWithResult ==
    [][\A i \in ReqIds :
          FindSubmission(i) /\ responses'[i] = << 409 >> => ResultExists(body[i])]_vars

\* C16: in every reachable state the Submission store holds at most one
\* record per (student, course) pair.
C16_OneSubmissionPerPair ==
    \A d1 \in submissions : \A d2 \in submissions :
        d1.matric = d2.matric /\ d1.courseCode = d2.courseCode => d1 = d2

AccessWritesDone == \A i \in GateIds : gate[i].kind = "access" => gate[i].pc = "done"

\* C17: once every access-control write has completed, each group has at
\* most one rule row, and the login's lookup finds an allowed rule for the
\* group exactly when the write that completed last set the status allowed;
\* it finds none when no rule was ever written.
C17_LastWriteWins ==
    AccessWritesDone =>
        \A g \in Groups :
            /\ Cardinality({k \in DOMAIN allowedGroups :
                   /\ allowedGroups[k].department = g[1]
                   /\ allowedGroups[k].level = g[2]}) <= 1
            /\ FindAllowedGroup(g[1], g[2]) # {} <=> lastRule[g] = "allowed"

\* C18: there is one SessionControl document at most, and the flag that login
\* and the status endpoint read is the value of the toggle that completed
\* last, or inactive when no toggle was ever made.
C18_SingleSessionFlag ==
    /\ Len(sessionDocs) <= 1
    /\ SessionActive <=> lastToggle = "active"

\* C19: the schedule check tells a student they are cleared to proceed only
\* when an allowed rule exists for the student's (department, level).
C19_ClearedOnlyWhenGroupAllowed ==
    [][\A i \in GateIds :
          CheckSchedule(i) /\ gate'[i].resp = "200 cleared to proceed" =>
              \E s \in Students :
                  /\ s.matric = ToUpperCase(gate[i].matric)
                  /\ FindAllowedGroup(s.department, s.level) # {}]_vars

\* C20: a step of the submission path stores a Submission or a Result of a
\* student only when the session is active, the student's group is allowed and
\* the student is scheduled.
C20_PersistOnlyWhenGateOpen ==
    [][\A i \in ReqIds :
          /\ CreateSubmission(i) /\ submissions' # submissions =>
                GateOpenFor(body[i].matric)
          /\ CreateResult(i) => GateOpenFor(body[i].matric)]_vars

----------------------------------------------------------------------------
(* Claims on the bookkeeping of the queue *)

PairOf(b) == << b.matric, b.courseCode >>

\* C21: under a cap of 1 at most one submission is in processing at a time,
\* so no two submissions of one pair are, and the stores hold at most one
\* Submission and at most one Result per pair.
C21_SingleFlightUnderCapOne ==
    MAX_CONCURRENT_SUBMISSIONS = 1 =>
        /\ \A i \in InProcessing : \A j \in InProcessing : i = j
        /\ \A d1 \in submissions : \A d2 \in submissions :
              PairOf(d1) = PairOf(d2) => d1 = d2
        /\ \A r1 \in results : \A r2 \in results : SamePair(r1, r2) => r1 = r2

\* under a cap of 1 three submissions of one pair have settled: one wrote the
\* Submission and the Result, the two others were answered 409
C21_Witness ==
    /\ MAX_CONCURRENT_SUBMISSIONS = 1
    /\ \A i \in ReqIds : pc[i] = "done" /\ body[i] = body[1]
    /\ Cardinality(submissions) = 1 /\ Cardinality(results) = 1
    /\ Cardinality({i \in ReqIds : responses[i] = << 409 >>}) = MaxReqs - 1

\* C22: activeSubmissions is the number of requests admitted and not yet
\* finished, and is never negative; it goes up by one for each request a step
\* leaves in processing and down by one for each request whose processing the
\* step ends, whatever the way it ends.
C22_ExactCounter ==
    /\ [](/\ activeSubmissions >= 0
          /\ activeSubmissions =
                Cardinality({k \in DOMAIN admitted : pc[admitted[k]] # "done"})
          /\ \A k \in DOMAIN admitted : pc[admitted[k]] \in Pending \cup {"done"})
    /\ [][activeSubmissions' - activeSubmissions =
            Cardinality({i \in ReqIds : pc[i] \notin Pending /\ pc'[i] \in Pending})
              - Cardinality({i \in ReqIds : pc[i] \in Pending /\ pc'[i] \notin Pending})]_vars

\* requests have finished by a 400, by a 409, by a 200 and by a 500, and the
\* counter is back at zero
C22_Witness ==
    /\ activeSubmissions = 0
    /\ Len(admitted) = MaxReqs
    /\ {responses[i] : i \in ReqIds} \in
          {{<< 400 >>, << 200 >>, << 500 >>}, {<< 409 >>, << 200 >>, << 500 >>},
           {<< 400 >>, << 409 >>, << 200 >>}}

\* C23: whenever a request waits in the queue every slot is taken.
C23_WorkConserving ==
    submissionQueue # << >> => activeSubmissions = MAX_CONCURRENT_SUBMISSIONS

\* a flow has finished and its drain admitted the next request, while another
\* request still waits and every slot is taken
C23_Witness ==
    /\ submissionQueue # << >>
    /\ activeSubmissions = MAX_CONCURRENT_SUBMISSIONS
    /\ \E i \in ReqIds : pc[i] = "done"
    /\ Len(admitted) > MAX_CONCURRENT_SUBMISSIONS

\* C24: every stored Result has a Submission of its pair in the store, and
\* every request answered 200 has a Result of its pair in the store (no step
\* removes a Result, so it was there when the answer was sent).
C24_SubmissionBeforeResult ==
    /\ \A r \in results :
          \E d \in submissions :
              d.matric = r.studentMatric /\ d.courseCode = r.courseCode
    /\ \A i \in ReqIds :
          responses[i] = << 200 >> =>
              \E r \in results :
                  r.studentMatric = body[i].matric /\ r.courseCode = body[i].courseCode

\* a request was answered 200 after writing its Submission and its Result
C24_Witness ==
    \E i \in ReqIds :
        /\ responses[i] = << 200 >>
        /\ \E d \in submissions : d._id = i
        /\ \E r \in results : r._id = i

----------------------------------------------------------------------------
(* Claims on tokens and registration *)

Registered(i) == treq[i].kind = "register" /\ treq[i].resp = "201 registered"

\* C25: each token is the token of at most one successful registration.
C25_TokenUsedOnce ==
    \A k \in DOMAIN tokens :
        Cardinality({i \in TokIds : Registered(i) /\ treq[i].loc = k}) <= 1

Verified(i) ==
    /\ treq[i].kind = "verify"
    /\ treq[i].resp \in {"200 token issued", "200 token exists"}

\* C26: at most one Token is stored for a payment reference, and every verify
\* call answered with success for the reference returned the same token code.
C26_VerifyIdempotent ==
    \A r \in References :
        /\ Cardinality({k \in DOMAIN tokens : tokens[k].reference = r}) <= 1
        /\ \A i \in TokIds : \A j \in TokIds :
              /\ Verified(i) /\ Verified(j)
              /\ treq[i].reference = r /\ treq[j].reference = r
              => treq[i].code = treq[j].code

\* C27: a step of a verify call adds a Token only when a Transaction of the
\* reference is recorded and the gateway reported 'success'; the steps that
\* answer not-found, not-successful or failure add none; every stored Token
\* of a reference has a Transaction of that reference.
C27_TokenOnlyForPaidTransaction ==
    /\ [](\A k \in DOMAIN tokens :
            tokens[k].reference # "" =>
                \E x \in transactions : x.reference = tokens[k].reference)
    /\ [][\A i \in TokIds :
            treq[i].kind = "verify" /\ treq'[i] # treq[i] =>
                /\ tokens' # tokens =>
                      /\ treq[i].status = "success"
                      /\ \E x \in transactions : x.reference = treq[i].reference
                /\ treq'[i].resp \in {"404 transaction not found",
                                      "400 payment not successful",
                                      "500 verification failed"}
                      => tokens' = tokens]_vars

\* verifications were answered not-found and not-successful, and a token was
\* issued for a paid reference
C27_Witness ==
    /\ \E i \in TokIds : treq[i].resp \in {"404 transaction not found",
                                           "400 payment not successful"}
    /\ \E i \in TokIds : treq[i].resp = "200 token issued"
    /\ \E k \in DOMAIN tokens : tokens[k].reference = "r2"

\* C28: in every reachable state an email has at most ManualTokenLimit
\* tokens with source 'manual'.
C28_ManualLimit ==
    \A e \in EmailInputs \cup {"b@x.y"} : CountManual(e) <= ManualTokenLimit

\* C29: every Token is created with status 'success'; a step leaves a stored
\* Token as it is or sets its status to 'used', and leaves a used Token used;
\* validation of the code of a used Token does not answer valid.
C29_StatusMonotonic ==
    /\ [](\A k \in DOMAIN tokens :
            /\ tokens[k].status \in {"success", "used"}
            /\ tokens[k].status = "used" => Validate(tokens[k].token) = "400 not valid")
    /\ [][/\ \A k \in DOMAIN tokens :
                /\ k \in DOMAIN tokens'
                /\ tokens'[k] \in {tokens[k], [tokens[k] EXCEPT !.status = "used"]}
          /\ \A k \in DOMAIN tokens' \ DOMAIN tokens :
                tokens'[k].status = "success"]_vars

\* a registration used the token of a payment, the payment was verified
\* again and answered with the token, and the token is still used
C29_Witness ==
    /\ \E i \in TokIds : Registered(i)
    /\ \E i \in TokIds : treq[i].resp = "200 token exists"
    /\ tokens # << >> /\ tokens[1].status = "used" /\ tokens[1].reference = "r1"

\* C30: a registration step changes a Token only by setting the token the
\* registration looked up to 'used', and only when the account of the
\* registration is stored; a step that rejects the registration (400, 409
\* from the lookup or from the unique index) changes no Token and stores no
\* account; a registration answered 201 has its token 'used'.
C30_TokenConsumedOnlyOnSuccess ==
    /\ [](\A i \in TokIds : Registered(i) => tokens[treq[i].loc].status = "used")
    /\ [][\A i \in TokIds :
            treq'[i].kind = "register" /\ treq'[i] # treq[i] =>
                /\ tokens' # tokens =>
                      /\ tokens' = [tokens EXCEPT ![treq[i].loc].status = "used"]
                      /\ IF treq[i].store = "student"
                         THEN \E s \in students : s.matric = treq[i].matric
                                                    /\ s.email = treq[i].email
                         ELSE \E u \in publicUsers : u.email = treq[i].email
                                                       /\ u.phone = treq[i].phone
                /\ treq'[i].resp \in {"400 fields required", "400 passwords do not match",
                                      "400 invalid or used token", "409 already exists",
                                      "409 duplicate key"}
                      => /\ tokens' = tokens
                         /\ students' = students
                         /\ publicUsers' = publicUsers]_vars

\* two registrations with one token and one matric passed the duplicate
\* lookup; one was answered 201, the other was rejected by the unique index
C30_Witness ==
    \E i \in TokIds : \E j \in TokIds :
        /\ Registered(i)
        /\ treq[j].kind = "register" /\ treq[j].resp = "409 duplicate key"
        /\ treq[j].store = "student"
        /\ Cardinality(students) = 1

====
